---- MODULE Spec2Model ----
(***************************************************************************)
(* A model of the ESRNN orchestrator (src/ESRNN/ESRNN.py) and of its       *)
(* configuration holder (src/ESRNN/utils/config.py).                       *)
(*                                                                         *)
(* The orchestrator is single threaded.  A call made by the user starts    *)
(* when no call is running (pc = <<>>); pc is the call stack, one position *)
(* per running method, the last element being the method that executes.    *)
(* An exception unwinds the whole stack (the code has no try / except) and *)
(* is recorded in ret.                                                     *)
(*                                                                         *)
(* The windowed batch Iterator (ESRNN.utils.data), the network (_ESRNN),   *)
(* torch and pandas are not part of the sources.  The Iterator is modelled *)
(* from its description (batch count, round-robin cursor, batch size       *)
(* update); the network and the numeric engine are taken to return         *)
(* normally, with the shapes their callers index.                          *)
(***************************************************************************)
EXTENDS Integers, Sequences, FiniteSets, TLC

\* ------------------------------------------------------------------ bounds
MaxEpochs == 6
MaxSeries == 3
MaxBatchSize == 2
MaxOutputSize == 2
MaxFits == 2
MaxArg == 3

\* ------------------------------------------------------- program constants
EnsembleSize == 5
BatchSizeTestDefault == 64
InitialMinOwa == 4
InputSizeDefault == 4
MaxPeriodsDefault == 20

\* An integer attribute that has not been assigned (Python: no such attribute).
NoAttr == -1
Min(a, b) == IF a < b THEN a ELSE b

CeilDiv(a, b) == (a + b - 1) \div b

\* ---------------------------------------------------------------- inputs
Freqs == {"D", "M"}
\* The test panels, when given, are daily: against training panels of either
\* frequency they agree or disagree.
TestFreqs == {"D"}
SeasonalityChoices == {<<>>, <<4>>, <<7>>, <<24, 168>>}
OwaScores == {2, 3, 5}
\* X_df as predict is given it: a frame with the unique_id column (with a ds
\* column of timestamps, or without ds: only the key of the final merge
\* differs), such a frame whose ds column holds no timestamps (strings,
\* integers), a frame without unique_id, something that is no frame.
XdfKinds == {"frame", "frame_other_ds", "frame_no_uid", "not_frame"}
CopyArgs == {NoAttr, 1}

\* The constructor's keyword arguments (lines 113-123) that the model
\* varies; the others keep their defaults.  Three families of instances:
\* those that train long (the training loop, the ensemble), those that
\* re-batch (predict), those that derive the lengths (ModelConfig).
LifecycleArgs ==
    [max_epochs : {MaxEpochs},
     batch_size : {MaxBatchSize},
     batch_size_test : {BatchSizeTestDefault},
     freq_of_test : {0, 2},
     ensemble : BOOLEAN,
     seasonality : {<<4>>},
     input_size : {InputSizeDefault},
     output_size : {1},
     max_periods : {MaxPeriodsDefault}]

PredictArgs ==
    [max_epochs : {1},
     batch_size : {MaxBatchSize},
     batch_size_test : {1, 2, BatchSizeTestDefault},
     freq_of_test : {1},
     ensemble : {TRUE},
     seasonality : {<<4>>},
     input_size : {InputSizeDefault},
     output_size : {1, MaxOutputSize},
     max_periods : {MaxPeriodsDefault}]

ConfigArgs ==
    [max_epochs : {1},
     batch_size : {1},
     batch_size_test : {BatchSizeTestDefault},
     freq_of_test : {-1},
     ensemble : {FALSE},
     seasonality : SeasonalityChoices,
     input_size : 0..MaxArg,
     output_size : 0..MaxArg,
     max_periods : 0..MaxArg]

\* ------------------------------------------------------------ ModelConfig
NaiveSeasonality(seasonality) ==
    IF Len(seasonality) > 0 THEN seasonality[1] ELSE 1

MinSeriesLength(input_size, output_size) == input_size + output_size

MaxSeriesLength_out(max_periods, input_size, min_series_length) ==
    (max_periods * min_series_length) + input_size

MaxSeriesLength(max_periods, input_size, min_series_length) ==
    (max_periods * input_size) + min_series_length

\* ModelConfig.__init__: the fields it assigns from the arguments the
\* model varies and the fields it derives, then the fields the orchestrator
\* assigns later (not yet set).  The hyperparameters that the constructor
\* stores as given and that the orchestrator only hands to torch
\* (learning_rate, lr_decay, gradient_eps, ..., root_dir) are left out.
ModelConfig(a) ==
    [max_epochs |-> a.max_epochs,
     batch_size |-> a.batch_size,
     batch_size_test |-> a.batch_size_test,
     freq_of_test |-> a.freq_of_test,
     ensemble |-> a.ensemble,
     seasonality |-> a.seasonality,
     naive_seasonality |-> NaiveSeasonality(a.seasonality),
     input_size |-> a.input_size,
     input_size_i |-> a.input_size,
     output_size |-> a.output_size,
     output_size_i |-> a.output_size,
     frequency |-> "None",
     min_series_length |-> MinSeriesLength(a.input_size, a.output_size),
     max_series_length |->
        MaxSeriesLength(a.max_periods, a.input_size,
                        MinSeriesLength(a.input_size, a.output_size)),
     max_periods |-> a.max_periods,
     exogenous_size |-> NoAttr,
     n_series |-> NoAttr,
     category_to_idx |-> <<>>,
     copy |-> NoAttr]

\* ------------------------------------------------------------------ state
VARIABLES
    args,            \* the constructor's keyword arguments
    mc,              \* self.mc, the ModelConfig
    fitted,          \* self._fitted
    esrnn,           \* self.esrnn: the live network object and its mode
    esrnn_ensemble,  \* self.esrnn_ensemble (<<>>: attribute not set)
    opt,             \* self.es_optimizer / self.rnn_optimizer: the network
                     \* whose parameter group each one holds
    sched,           \* self.es_scheduler / self.rnn_scheduler: steps taken
    grads,           \* gradient buffers of the live network's two groups
    dl,              \* self.train_dataloader (the Iterator)
    panels,          \* self.X_test_df, self.y_test_df (self.frequencies,
                     \* which nothing reads after fit, is not kept)
    min_owa,         \* self.min_owa
    min_epoch,       \* self.min_epoch
    pc,              \* the call stack of positions; <<>>: no call running
    epoch,           \* train: the loop variable of line 191
    tb,              \* train: batches done in the loop of line 197
    warm,            \* train: its warm_start parameter
    me_i,            \* model_evaluation: batches done in the loop of line 296
    pr,              \* predict: its locals (X_df, loop index, count, panel_y_hat)
    emp_epoch,       \* evaluate_model_prediction: its epoch parameter
    ret,             \* how the last user call ended ("running": not yet)
    hist             \* history: scheduler steps taken in the current epoch,
                     \* the events of the current batch iteration of train,
                     \* the best score seen since the last fit

vars == <<args, mc, fitted, esrnn, esrnn_ensemble, opt, sched, grads, dl,
          panels, min_owa, min_epoch, pc, epoch, tb, warm, me_i, pr,
          emp_epoch, ret, hist>>

\* What the instance holds (its attributes), as opposed to the locals of the
\* running calls and the record of outcomes.
instance == <<mc, fitted, esrnn, esrnn_ensemble, opt, sched, grads, dl,
              panels, min_owa, min_epoch>>

locals == <<epoch, tb, warm, me_i, pr, emp_epoch>>

NoObject == [fit |-> 0, copy |-> 0]

NoNetwork == [id |-> NoObject, mode |-> "none"]

NoIterator == [n_series |-> NoAttr, batch_size |-> NoAttr,
               n_batches |-> NoAttr, b |-> NoAttr, seed |-> NoAttr]

NoPanels == [X_test |-> "unset", y_test |-> "unset"]

\* What the instance keeps of a panel it is given: None, or a frame.
Stored(panel) == IF panel = "None" THEN "None" ELSE "frame"

\* The best score seen since the last fit and the evaluation that gave it:
\* none yet (by "fit"), one made by train at an epoch, one made by the caller.
NoBest == [owa |-> NoAttr, by |-> "none", epoch |-> NoAttr]

NoHistory == [schedInEpoch |-> 0, iter |-> <<>>, best |-> NoBest]

\* The history of a new epoch.
NewEpoch(h) == [h EXCEPT !.schedInEpoch = 0, !.iter = <<>>]

\* The history after an evaluation (by the caller when its epoch is None)
\* has scored model_owa.
Scored(h, model_owa, ep) ==
    IF model_owa < h.best.owa
    THEN [h EXCEPT !.best = [owa |-> model_owa,
                             by |-> IF ep = NoAttr THEN "caller" ELSE "train",
                             epoch |-> ep]]
    ELSE h

NoPredict == [kind |-> "none", i |-> 0, count |-> 0, panel |-> <<>>]

Idle == pc = <<>>

Top == IF pc = <<>> THEN "idle" ELSE pc[Len(pc)]

\* The stack with the executing method's position replaced.
Goto(pos) == [pc EXCEPT ![Len(pc)] = pos]

Pop == SubSeq(pc, 1, Len(pc) - 1)

ResetLocals ==
    /\ epoch' = 0
    /\ tb' = 0
    /\ warm' = FALSE
    /\ me_i' = 0
    /\ pr' = NoPredict
    /\ emp_epoch' = NoAttr

\* An exception: nothing catches it, the user call ends with it.
Raise(err) ==
    /\ pc' = <<>>
    /\ ret' = err
    /\ ResetLocals

\* ESRNN.__init__ (the state after construction).
InitInstance(a) ==
    /\ args = a
    /\ mc = ModelConfig(a)
    /\ fitted = FALSE
    /\ esrnn = NoNetwork
    /\ esrnn_ensemble = <<>>
    /\ opt = [es |-> NoObject, rnn |-> NoObject]
    /\ sched = [es |-> NoAttr, rnn |-> NoAttr]
    /\ grads = [rnn |-> "none", es |-> "none"]
    /\ dl = NoIterator
    /\ panels = NoPanels
    /\ min_owa = NoAttr
    /\ min_epoch = NoAttr
    /\ pc = <<>>
    /\ epoch = 0
    /\ tb = 0
    /\ warm = FALSE
    /\ me_i = 0
    /\ pr = NoPredict
    /\ emp_epoch = NoAttr
    /\ ret = "none"
    /\ hist = NoHistory

Init == \E a \in LifecycleArgs : InitInstance(a)

\* --------------------------------------------------------------- Iterator
\* n_batches from batch_size and the series count.
NBatches(n_series, batch_size) == CeilDiv(n_series, batch_size)

\* Iterator(mc, X, y)
NewIterator(n_series, batch_size) ==
    [n_series |-> n_series, batch_size |-> batch_size,
     n_batches |-> NBatches(n_series, batch_size), b |-> 0, seed |-> NoAttr]

\* update_batch_size(n): reconfigures batching and recomputes n_batches.
UpdateBatchSize(it, n) ==
    [it EXCEPT !.batch_size = n, !.n_batches = NBatches(it.n_series, n)]

\* shuffle_dataset(random_seed)
ShuffleDataset(it, seed) == [it EXCEPT !.seed = seed]

\* The number of series (rows) in the batch get_batch returns next.
BatchRows(it) ==
    LET first == it.b * it.batch_size
        last == Min(first + it.batch_size, it.n_series)
    IN  IF last > first THEN last - first ELSE 0

\* get_batch(): the cursor advances with wraparound over n_batches.
GetBatch(it) == [it EXCEPT !.b = (it.b + 1) % it.n_batches]

\* new_batch_size = min(self.mc.n_series, self.mc.batch_size_test)
EvalBatchSize(c) == Min(c.n_series, c.batch_size_test)


\* -------------------------------------------------------------------- fit
\* The training panels fit is called with: n series, their static category
\* alternating between two values.
UniqueCategories(n) == IF n = 1 THEN <<"a">> ELSE <<"a", "b">>

FitInputs ==
    [n : 1..MaxSeries,            \* series in X_df / y_df
     xf : Freqs,                  \* pd.infer_freq of X_df
     yf : Freqs,                  \* pd.infer_freq of y_df
     xt : {"None"} \cup TestFreqs,  \* X_test_df: None, or its frequency
     yt : {"None"} \cup TestFreqs,  \* y_test_df: None, or its frequency
     warm_start : BOOLEAN]

\* self.frequencies, lines 437-444: the test panels' frequencies are added
\* only when both test panels are given.
Frequencies(a) ==
    <<a.xf, a.yf>> \o
    (IF a.xt # "None" /\ a.yt # "None" THEN <<a.xt, a.yt>> ELSE <<>>)

\* len(set(self.frequencies)) <= 1, line 446
FrequenciesAgree(fs) == Cardinality({fs[i] : i \in DOMAIN fs}) <= 1

\* _ESRNN(self.mc): a new network object, in training mode.
NewNetwork_eval(k) == [id |-> [fit |-> k, copy |-> 0], mode |-> "eval"]

NewNetwork(k) == [id |-> [fit |-> k, copy |-> 0], mode |-> "train"]

\* self._fitted = True, line 453, reached when the frequencies agree
MarkFitted_late(agree, f) == f

MarkFitted(agree, f) == IF agree THEN TRUE ELSE f

\* instantiate_esrnn, lines 460-461: the two fields it records
Instantiated_batch(c, exogenous_size, n_series) ==
    [c EXCEPT !.exogenous_size = exogenous_size, !.n_series = n_series,
              !.batch_size = Min(c.batch_size, n_series)]

Instantiated(c, exogenous_size, n_series) ==
    [c EXCEPT !.exogenous_size = exogenous_size, !.n_series = n_series]

\* fit with panels that fail an assertion of lines 395-400: nothing is
\* assigned.
FitRejected ==
    /\ Idle
    /\ ret' = "AssertionError in fit"
    /\ UNCHANGED <<args, instance, pc, locals, hist>>

\* fit, lines 393-453 (up to the call of train), with well-formed panels.
\* Each call makes a new network; esrnn.id.fit numbers them.
FitCall(a) ==
    /\ Idle
    /\ esrnn.id.fit < MaxFits
    /\ LET fs == Frequencies(a)
           cats == UniqueCategories(a.n)
           agree == FrequenciesAgree(fs)
       IN  /\ panels' = [X_test |-> Stored(a.xt), y_test |-> Stored(a.yt)]
           /\ min_owa' = InitialMinOwa
           /\ min_epoch' = 0
           /\ dl' = NewIterator(a.n, mc.batch_size)
           \* instantiate_esrnn, lines 460-462
           /\ esrnn' = NewNetwork(esrnn.id.fit + 1)
           /\ grads' = [rnn |-> "none", es |-> "none"]
           /\ mc' = [Instantiated([mc EXCEPT !.category_to_idx = cats],
                                  Len(cats), a.n)
                       EXCEPT !.frequency = IF agree THEN fs[1] ELSE @]
           /\ fitted' = MarkFitted(agree, fitted)
           /\ pc' = (IF agree THEN <<"train_begin">> ELSE <<>>)
           /\ ret' = (IF agree THEN "running" ELSE "Match the frequencies")
           /\ warm' = (IF agree THEN a.warm_start ELSE FALSE)
           /\ hist' = [hist EXCEPT !.best = [owa |-> InitialMinOwa,
                                              by |-> "fit",
                                              epoch |-> NoAttr]]
           /\ UNCHANGED <<args, esrnn_ensemble, opt, sched, epoch, tb,
                          me_i, pr, emp_epoch>>

\* ------------------------------------------------------------------ train
\* [deepcopy(self.esrnn)] * 5, line 160: one copy, held five times.
InitialEnsemble(net) ==
    [i \in 1..EnsembleSize |->
        [id |-> [fit |-> net.id.fit, copy |-> 1], epoch |-> NoAttr,
         mode |-> net.mode]]

\* copy_esrnn = deepcopy(self.esrnn); copy_esrnn.eval(), lines 223-224:
\* a new object for the epoch, in evaluation mode.
Snapshot_live(net, e) == [id |-> net.id, epoch |-> e, mode |-> "eval"]

Snapshot(net, e) ==
    [id |-> [fit |-> net.id.fit, copy |-> e + 2], epoch |-> e,
     mode |-> "eval"]

\* self.esrnn_ensemble.pop(0); self.esrnn_ensemble.append(copy_esrnn)
PushEnsemble_keep(ens, snap) == Append(ens, snap)

PushEnsemble(ens, snap) == Append(Tail(ens), snap)

\* train, lines 159-189.
TrainBegin ==
    /\ Top = "train_begin"
    /\ esrnn_ensemble' = (IF mc.ensemble THEN InitialEnsemble(esrnn)
                          ELSE esrnn_ensemble)
    /\ opt' = (IF ~warm THEN [es |-> esrnn.id, rnn |-> esrnn.id] ELSE opt)
    /\ sched' = (IF ~warm THEN [es |-> 0, rnn |-> 0] ELSE sched)
    /\ epoch' = 0
    /\ tb' = 0
    /\ pc' = Goto("epoch_begin")
    /\ hist' = NewEpoch(hist)
    /\ UNCHANGED <<args, mc, fitted, esrnn, grads, dl, panels, min_owa,
                   min_epoch, warm, me_i, pr, emp_epoch, ret>>

\* The head of the loop of line 191, and lines 192-196; after the last
\* epoch train returns, and fit with it (line 246).
EpochBegin ==
    /\ Top = "epoch_begin"
    /\ IF epoch < mc.max_epochs
       THEN /\ esrnn' = [esrnn EXCEPT !.mode = "train"]
            /\ dl' = ShuffleDataset(dl, epoch)
            /\ tb' = 0
            /\ hist' = NewEpoch(hist)
            /\ pc' = Goto(IF 0 < dl.n_batches THEN "zero_grad"
                          ELSE "epoch_end")
            /\ UNCHANGED <<ret, epoch, warm, me_i, pr, emp_epoch>>
       ELSE /\ pc' = <<>>
            /\ ret' = "ok"
            /\ ResetLocals
            /\ hist' = NewEpoch(hist)
            /\ UNCHANGED <<esrnn, dl>>
    /\ UNCHANGED <<args, mc, fitted, esrnn_ensemble, opt, sched, grads,
                   panels, min_owa, min_epoch>>

\* optimizer.zero_grad(): the buffers of the parameters the optimizer holds.
ZeroedBy(o, net, g) == IF o = net.id THEN "zero" ELSE g

\* lines 198-199
ZeroGrad ==
    /\ Top = "zero_grad"
    /\ IF opt.es = NoObject \/ opt.rnn = NoObject
       THEN Raise("AttributeError") /\ UNCHANGED <<grads, hist>>
       ELSE /\ grads' = [rnn |-> ZeroedBy(opt.rnn, esrnn, grads.rnn),
                         es |-> ZeroedBy(opt.es, esrnn, grads.es)]
            /\ hist' = [hist EXCEPT
                          !.iter = <<"zero_grad_es", "zero_grad_rnn">>]
            /\ pc' = Goto("forward")
            /\ UNCHANGED <<locals, ret>>
    /\ UNCHANGED <<args, mc, fitted, esrnn, esrnn_ensemble, opt, sched, dl,
                   panels, min_owa, min_epoch>>

\* lines 201-206: get_batch, the forward pass, the loss
Forward ==
    /\ Top = "forward"
    /\ dl' = GetBatch(dl)
    /\ hist' = [hist EXCEPT !.iter = @ \o <<"get_batch", "loss">>]
    /\ pc' = Goto("backward")
    /\ UNCHANGED <<args, mc, fitted, esrnn, esrnn_ensemble, opt, sched,
                   grads, panels, min_owa, min_epoch, locals, ret>>

\* loss.backward(), line 209: gradients of both groups of the live network
Backward ==
    /\ Top = "backward"
    /\ grads' = [rnn |-> "raw", es |-> "raw"]
    /\ hist' = [hist EXCEPT !.iter = @ \o <<"backward">>]
    /\ pc' = Goto("clip")
    /\ UNCHANGED <<args, mc, fitted, esrnn, esrnn_ensemble, opt, sched, dl,
                   panels, min_owa, min_epoch, locals, ret>>

\* clip_grad_norm_ on the rnn group, then on the es group, lines 211-214
Clipped_rnnonly(g) == [g EXCEPT !.rnn = "clipped"]

Clipped(g) == [rnn |-> "clipped", es |-> "clipped"]

Clip ==
    /\ Top = "clip"
    /\ grads' = Clipped(grads)
    /\ hist' = [hist EXCEPT !.iter = @ \o <<"clip_rnn", "clip_es">>]
    /\ pc' = Goto("opt_step")
    /\ UNCHANGED <<args, mc, fitted, esrnn, esrnn_ensemble, opt, sched, dl,
                   panels, min_owa, min_epoch, locals, ret>>

\* self.rnn_optimizer.step(); self.es_optimizer.step(), lines 215-216, and
\* the end of the loop body of line 197.
OptStep ==
    /\ Top = "opt_step"
    /\ tb' = tb + 1
    /\ hist' = [hist EXCEPT !.iter = @ \o <<"step_rnn", "step_es">>]
    /\ pc' = Goto(IF tb + 1 < dl.n_batches THEN "zero_grad" ELSE "epoch_end")
    /\ UNCHANGED <<args, instance, epoch, warm, me_i, pr, emp_epoch, ret>>

\* scheduler.step(), lines 219-220
Stepped(s) == [es |-> s.es + 1, rnn |-> s.rnn + 1]

\* lines 218-235: both schedulers step, the ensemble takes the snapshot
EpochEnd ==
    /\ Top = "epoch_end"
    /\ IF sched.es = NoAttr \/ sched.rnn = NoAttr
       THEN /\ Raise("AttributeError")
            /\ UNCHANGED <<sched, esrnn_ensemble, hist>>
       ELSE /\ sched' = Stepped(sched)
            /\ esrnn_ensemble' =
                 (IF mc.ensemble
                  THEN PushEnsemble(esrnn_ensemble, Snapshot(esrnn, epoch))
                  ELSE esrnn_ensemble)
            /\ hist' = [hist EXCEPT !.schedInEpoch = @ + 1]
            /\ pc' = Goto("eval_check")
            /\ UNCHANGED <<locals, ret>>
    /\ UNCHANGED <<args, mc, fitted, esrnn, opt, grads, dl, panels, min_owa,
                   min_epoch>>


\* Python's a % b for b # 0: the result has the sign of the divisor.
PyMod(a, b) == IF b > 0 THEN a % b ELSE -((-a) % (-b))

\* (epoch % self.mc.freq_of_test == 0) and (self.mc.freq_of_test > 0)
DoEval(e, f) == PyMod(e, f) = 0 /\ f > 0

\* lines 237-238: the test of the period, then of the held-out panel; a
\* period of 0 makes the modulo raise.
EvalCheck ==
    /\ Top = "eval_check"
    /\ IF mc.freq_of_test = 0
       THEN Raise("ZeroDivisionError")
       ELSE IF DoEval(epoch, mc.freq_of_test) /\ panels.y_test # "None"
       THEN /\ pc' = Goto("emp_call") \o <<"me_begin">>
            /\ UNCHANGED <<locals, ret>>
       ELSE /\ epoch' = epoch + 1
            /\ pc' = Goto("epoch_begin")
            /\ UNCHANGED <<tb, warm, me_i, pr, emp_epoch, ret>>
    /\ UNCHANGED <<args, instance, hist>>

\* --------------------------------------------------------- model_evaluation
\* lines 290-295
ModelEvalBegin ==
    /\ Top = "me_begin"
    /\ dl' = UpdateBatchSize(dl, EvalBatchSize(mc))
    /\ me_i' = 0
    /\ pc' = Goto("me_loop")
    /\ UNCHANGED <<args, mc, fitted, esrnn, esrnn_ensemble, opt, sched,
                   grads, panels, min_owa, min_epoch, epoch, tb, warm, pr,
                   emp_epoch, ret, hist>>

\* lines 296-300
ModelEvalBatch ==
    /\ Top = "me_loop"
    /\ me_i < dl.n_batches
    /\ dl' = GetBatch(dl)
    /\ me_i' = me_i + 1
    /\ UNCHANGED <<args, mc, fitted, esrnn, esrnn_ensemble, opt, sched,
                   grads, panels, min_owa, min_epoch, pc, epoch, tb, warm,
                   pr, emp_epoch, ret, hist>>

\* lines 302-304, and the return to line 239
ModelEvalEnd ==
    /\ Top = "me_loop"
    /\ me_i >= dl.n_batches
    /\ dl' = UpdateBatchSize(dl, mc.batch_size)
    /\ me_i' = 0
    /\ pc' = Pop
    /\ UNCHANGED <<args, mc, fitted, esrnn, esrnn_ensemble, opt, sched,
                   grads, panels, min_owa, min_epoch, epoch, tb, warm, pr,
                   emp_epoch, ret, hist>>

\* ---------------------------------------------------------------- predict
\* assert self._fitted, "Model not fitted yet"
FittedCheck_none(f) == TRUE

FittedCheck(f) == f

\* panel_y_hat = np.zeros((output_size * n_unique_id)): per slot, the number
\* of times it has been written.
Placeholders(output_size, n_unique_id) ==
    [j \in 1..(output_size * n_unique_id) |-> 0]

\* predict, lines 488-514, entered with X_df of the given kind from the
\* given stack; ep is the epoch parameter of the evaluate_model_prediction
\* that calls it (NoAttr: None, or no such caller).
PredictEnter(kind, stack, ep) ==
    IF kind \in {"not_frame", "frame_no_uid"}
    THEN /\ pc' = <<>>
         /\ ret' = "AssertionError in predict"
         /\ ResetLocals
         /\ UNCHANGED <<esrnn, dl>>
    ELSE IF ~FittedCheck(fitted)
    THEN /\ pc' = <<>>
         /\ ret' = "Model not fitted yet"
         /\ ResetLocals
         /\ UNCHANGED <<esrnn, dl>>
    ELSE IF esrnn.id = NoObject \/ dl.n_series = NoAttr
    THEN /\ pc' = <<>>
         /\ ret' = "AttributeError"
         /\ ResetLocals
         /\ UNCHANGED <<esrnn, dl>>
    ELSE /\ esrnn' = [esrnn EXCEPT !.mode = "eval"]
         /\ dl' = UpdateBatchSize(dl, EvalBatchSize(mc))
         /\ pr' = [kind |-> kind, i |-> 0, count |-> 0,
                   panel |-> Placeholders(mc.output_size, dl.n_series)]
         /\ pc' = stack \o <<"predict_loop">>
         /\ ret' = "running"
         /\ emp_epoch' = ep
         /\ UNCHANGED <<epoch, tb, warm, me_i>>

\* The slots panel_y_hat[count:count+k] names: a slice stops at the end.
SliceLen(count, k, len) == Min(count + k, len) - Min(count, len)

\* count += output_size*batch_size, line 530
NextCount_rows(count, output_size, rows) == count + rows

NextCount(count, output_size, rows) == count + output_size * rows

\* lines 516-530: one batch, its forecasts written at the cursor.  A value of
\* another length than the slice is refused, unless it is a single element
\* (then it is broadcast over the slice).
PredictBatch ==
    /\ Top = "predict_loop"
    /\ pr.i < dl.n_batches
    /\ LET rows == BatchRows(dl)
           k == mc.output_size * rows
           m == SliceLen(pr.count, k, Len(pr.panel))
       IN  IF mc.ensemble /\ Len(esrnn_ensemble) < EnsembleSize
           THEN Raise("AttributeError") /\ UNCHANGED dl
           ELSE IF k # m /\ k # 1
           THEN Raise("ValueError") /\ UNCHANGED dl
           ELSE /\ dl' = GetBatch(dl)
                /\ pr' = [pr EXCEPT
                            !.i = @ + 1,
                            !.count = NextCount(pr.count, mc.output_size, rows),
                            !.panel = [j \in DOMAIN pr.panel |->
                                         IF pr.count < j /\ j <= pr.count + m
                                         THEN pr.panel[j] + 1
                                         ELSE pr.panel[j]]]
                /\ UNCHANGED <<pc, ret, epoch, tb, warm, me_i, emp_epoch>>
    /\ UNCHANGED <<args, mc, fitted, esrnn, esrnn_ensemble, opt, sched,
                   grads, panels, min_owa, min_epoch, hist>>

\* X_df.merge(Y_hat_panel, on=['unique_id', 'ds']), lines 540-541: pandas
\* refuses to merge a ds column that holds no timestamps on the forecast's
\* timestamps (ValueError).
Mergeable(kind) == kind # "frame_other_ds"

\* lines 532-546: the panel is assembled and merged, the training batch size
\* is set again, predict returns (to its caller, or to the user).  A failed
\* merge ends the call before line 545.
PredictEnd ==
    /\ Top = "predict_loop"
    /\ pr.i >= dl.n_batches
    /\ IF ~Mergeable(pr.kind)
       THEN Raise("ValueError") /\ UNCHANGED dl
       ELSE /\ dl' = UpdateBatchSize(dl, mc.batch_size)
            /\ pr' = NoPredict
            /\ pc' = Pop
            /\ ret' = (IF Len(pc) = 1 THEN "ok" ELSE ret)
            /\ UNCHANGED <<epoch, tb, warm, me_i, emp_epoch>>
    /\ UNCHANGED <<args, mc, fitted, esrnn, esrnn_ensemble, opt, sched,
                   grads, panels, min_owa, min_epoch, hist>>

\* The user calls predict(X_df).
Predict(kind) ==
    /\ Idle
    /\ PredictEnter(kind, <<>>, NoAttr)
    /\ UNCHANGED <<args, mc, fitted, esrnn_ensemble, opt, sched, grads,
                   panels, min_owa, min_epoch, hist>>

\* ------------------------------------------------ evaluate_model_prediction
\* The X_df that train hands to predict: self.X_test_df.
StoredXTestKind == IF panels.X_test = "frame" THEN "frame"
                   ELSE "not_frame"

\* train, lines 242-243: evaluate_model_prediction(..., epoch=epoch), its
\* lines 335-340, and predict's 488-514.
EmpCall ==
    /\ Top = "emp_call"
    /\ IF ~FittedCheck(fitted)
       THEN Raise("Model not fitted yet") /\ UNCHANGED <<esrnn, dl>>
       ELSE PredictEnter(StoredXTestKind,
                         Goto("after_emp") \o <<"emp_wait">>, epoch)
    /\ UNCHANGED <<args, mc, fitted, esrnn_ensemble, opt, sched, grads,
                   panels, min_owa, min_epoch, hist>>

\* The user calls evaluate_model_prediction(y_train_df, X_test_df, y_test_df).
EvaluateModelPrediction(kind) ==
    /\ Idle
    /\ IF ~FittedCheck(fitted)
       THEN /\ pc' = <<>>
            /\ ret' = "Model not fitted yet"
            /\ ResetLocals
            /\ UNCHANGED <<esrnn, dl>>
       ELSE PredictEnter(kind, <<"emp_wait">>, NoAttr)
    /\ UNCHANGED <<args, mc, fitted, esrnn_ensemble, opt, sched, grads,
                   panels, min_owa, min_epoch, hist>>

\* if self.min_owa > model_owa, lines 347-350
BetterOwa_tie(best, model_owa) == best >= model_owa

BetterOwa(best, model_owa) == best > model_owa

\* lines 341-356, after predict has returned: the score, the best score
EmpEnd(model_owa) ==
    /\ Top = "emp_wait"
    /\ min_owa' = (IF BetterOwa(min_owa, model_owa) THEN model_owa
                   ELSE min_owa)
    /\ min_epoch' = (IF BetterOwa(min_owa, model_owa) /\ emp_epoch # NoAttr
                     THEN emp_epoch ELSE min_epoch)
    /\ emp_epoch' = NoAttr
    /\ pc' = Pop
    /\ ret' = (IF Len(pc) = 1 THEN "ok" ELSE ret)
    /\ hist' = Scored(hist, model_owa, emp_epoch)
    /\ UNCHANGED <<args, mc, fitted, esrnn, esrnn_ensemble, opt, sched,
                   grads, dl, panels, epoch, tb, warm, me_i, pr>>

\* train, line 244 and the end of the loop body of line 191
AfterEmp ==
    /\ Top = "after_emp"
    /\ esrnn' = [esrnn EXCEPT !.mode = "train"]
    /\ epoch' = epoch + 1
    /\ pc' = Goto("epoch_begin")
    /\ UNCHANGED <<args, mc, fitted, esrnn_ensemble, opt, sched, grads, dl,
                   panels, min_owa, min_epoch, tb, warm, me_i, pr, emp_epoch,
                   ret, hist>>

\* ------------------------------------------------------------- save, load
\* if copy is not None: self.mc.copy = copy, lines 606-607 and 625-626
WithCopy(c, copy) == IF copy # NoAttr THEN [c EXCEPT !.copy = copy] ELSE c

\* save: without model_dir, get_dir_name reads self.mc.dataset_name, which no
\* code assigns; with it, line 620 reads self.es, which no code assigns.
Save(copy) ==
    /\ Idle
    /\ mc' = WithCopy(mc, copy)
    /\ ret' = "AttributeError"
    /\ UNCHANGED <<args, fitted, esrnn, esrnn_ensemble, opt, sched, grads,
                   dl, panels, min_owa, min_epoch, pc, locals, hist>>

\* load: as save, but a model_dir without the file is reported and load
\* returns (lines 636, 646-647).
Load(copy, dir_given, is_file) ==
    /\ Idle
    /\ mc' = WithCopy(mc, copy)
    /\ ret' = (IF dir_given /\ ~is_file THEN "ok" ELSE "AttributeError")
    /\ UNCHANGED <<args, fitted, esrnn, esrnn_ensemble, opt, sched, grads,
                   dl, panels, min_owa, min_epoch, pc, locals, hist>>

\* ------------------------------------------------------------------- Next
Next ==
    \/ FitRejected
    \/ \E a \in FitInputs : FitCall(a)
    \/ TrainBegin
    \/ EpochBegin
    \/ ZeroGrad
    \/ Forward
    \/ Backward
    \/ Clip
    \/ OptStep
    \/ EpochEnd
    \/ EvalCheck
    \/ ModelEvalBegin
    \/ ModelEvalBatch
    \/ ModelEvalEnd
    \/ EmpCall
    \/ PredictBatch
    \/ PredictEnd
    \/ \E m \in OwaScores : EmpEnd(m)
    \/ AfterEmp
    \/ \E k \in XdfKinds : Predict(k)
    \/ \E k \in XdfKinds : EvaluateModelPrediction(k)
    \/ \E c \in CopyArgs : Save(c)
    \/ \E c \in CopyArgs, d \in BOOLEAN, f \in BOOLEAN : Load(c, d, f)

Spec == Init /\ [][Next]_vars

\* ESRNN.__init__, lines 124-139, from the keyword arguments.
Construct ==
    /\ Top = "new"
    /\ mc' = ModelConfig(args)
    /\ fitted' = FALSE
    /\ pc' = <<>>
    /\ UNCHANGED <<args, esrnn, esrnn_ensemble, opt, sched, grads, dl,
                   panels, min_owa, min_epoch, locals, ret, hist>>

\* The instances that re-batch, under the same operations.
InitPredict == \E a \in PredictArgs : InitInstance(a)

SpecPredict == InitPredict /\ [][Next]_vars

\* The construction alone, over the arguments the derived fields depend on.
ConfigFields == DOMAIN ModelConfig(CHOOSE a \in ConfigArgs : TRUE)

InitConfig ==
    /\ args \in ConfigArgs
    /\ mc = [f \in ConfigFields |-> NoAttr]
    /\ fitted = FALSE
    /\ esrnn = NoNetwork
    /\ esrnn_ensemble = <<>>
    /\ opt = [es |-> NoObject, rnn |-> NoObject]
    /\ sched = [es |-> NoAttr, rnn |-> NoAttr]
    /\ grads = [rnn |-> "none", es |-> "none"]
    /\ dl = NoIterator
    /\ panels = NoPanels
    /\ min_owa = NoAttr
    /\ min_epoch = NoAttr
    /\ pc = <<"new">>
    /\ epoch = 0
    /\ tb = 0
    /\ warm = FALSE
    /\ me_i = 0
    /\ pr = NoPredict
    /\ emp_epoch = NoAttr
    /\ ret = "none"
    /\ hist = NoHistory

NextConfig == Construct

SpecConfig == InitConfig /\ [][NextConfig]_vars

\* ----------------------------------------------------------- vocabulary
\* No fit has got past its input assertions: nothing has been assigned since
\* construction.
NeverFit == esrnn = NoNetwork /\ dl = NoIterator /\ ~fitted

\* The position of train, when the running user call is a fit.
TrainPositions ==
    {"train_begin", "epoch_begin", "zero_grad", "forward", "backward",
     "clip", "opt_step", "epoch_end", "eval_check", "emp_call", "after_emp"}

InTrain == pc # <<>> /\ pc[1] \in TrainPositions

\* The epochs of the running train whose lines 218-226 have run.
EpochsDone ==
    IF pc[1] \in {"eval_check", "emp_call", "after_emp"} THEN epoch + 1
    ELSE epoch

\* A call that fails and assigns nothing.
FailsUnchanged(err) ==
    /\ ret' = err
    /\ pc' = <<>>
    /\ UNCHANGED <<args, instance, locals>>

\* -------------------------------------------------------------------- C1
\* C1 as stated: on an instance on which fit has never been called, every
\* call of predict and of evaluate_model_prediction fails with "Model not
\* fitted yet" and changes no field of the instance.
C1_EveryCallNotFitted ==
    [][\A k \in XdfKinds :
          (NeverFit /\ (Predict(k) \/ EvaluateModelPrediction(k)))
             => FailsUnchanged("Model not fitted yet")]_vars

\* C1, amended: on an instance on which fit has never been called, every call
\* of predict and of evaluate_model_prediction fails and changes no field of
\* the instance (network, iterator and its cursor included); the failure is
\* "Model not fitted yet" for evaluate_model_prediction and for predict given
\* a frame with the unique_id column, and the bare assertion of line 488 or
\* 489 for predict given anything else.
C1_UnfittedCallsFail ==
    [][\A k \in XdfKinds :
          /\ (NeverFit /\ Predict(k))
                => FailsUnchanged(IF k \in {"frame", "frame_other_ds"}
                                  THEN "Model not fitted yet"
                                  ELSE "AssertionError in predict")
          /\ (NeverFit /\ EvaluateModelPrediction(k))
                => FailsUnchanged("Model not fitted yet")]_vars

C1_Witness == NeverFit /\ Idle /\ ret = "Model not fitted yet"

\* -------------------------------------------------------------------- C2
\* A step that is a call of fit with well-formed panels: the only step from
\* an idle instance that enters train or ends with "Match the frequencies".
FitStep ==
    Idle /\ (pc' = <<"train_begin">> \/ ret' = "Match the frequencies")

\* C2 as stated: a call of fit on an instance on which fit has already been
\* called is rejected; it replaces neither the network, the iterator, the
\* category mapping nor the frequency, and train does not run again.
C2_SecondFitRejected ==
    [][\A a \in FitInputs :
          (~NeverFit /\ FitCall(a))
             => /\ pc' = <<>>
                /\ ret' \notin {"ok", "running"}
                /\ UNCHANGED <<esrnn, dl, mc>>]_vars

\* C2, amended: fit may be called again.  A later call with well-formed
\* panels makes a new network in training mode and a new iterator, and
\* records the category mapping and the series count of its panels; when the
\* frequencies it compares agree it records the frequency, marks the
\* instance fitted and enters train; when they differ it fails with "Match
\* the frequencies" and leaves the frequency and the fitted flag as they were.
C2_Refit ==
    [][(~NeverFit /\ FitStep)
          => /\ esrnn' = [id |-> [fit |-> esrnn.id.fit + 1, copy |-> 0],
                          mode |-> "train"]
             /\ dl'.n_series = mc'.n_series
             /\ dl'.batch_size = mc.batch_size
             /\ dl'.n_batches = CeilDiv(dl'.n_series, dl'.batch_size)
             /\ dl'.b = 0
             /\ mc'.n_series \in 1..MaxSeries
             /\ mc'.category_to_idx = UniqueCategories(mc'.n_series)
             /\ mc'.exogenous_size = Len(mc'.category_to_idx)
             /\ min_owa' = InitialMinOwa /\ min_epoch' = 0
             /\ \/ /\ pc' = <<"train_begin">>
                   /\ ret' = "running"
                   /\ fitted'
                   /\ mc'.frequency \in Freqs
                \/ /\ pc' = <<>>
                   /\ ret' = "Match the frequencies"
                   /\ fitted' = fitted
                   /\ mc'.frequency = mc.frequency]_vars

\* The second fit's train is in its batch loop, the optimizers being those of
\* the first fit's train (warm start).
C2_Witness ==
    /\ esrnn.id.fit = 2
    /\ Top = "opt_step"
    /\ opt.es.fit = 1
    /\ mc.frequency # "None"

\* -------------------------------------------------------------------- C3
\* C3 as stated: in every reachable state where the fitted flag is true,
\* train has finished all max_epochs epochs of that fit call (so the flag is
\* never true while train runs an epoch, nor after train was interrupted).
C3_FittedOnlyAfterTrain ==
    fitted => /\ ~(InTrain /\ epoch < mc.max_epochs)
              /\ ~(Idle /\ ret = "ZeroDivisionError")

\* C3, amended: the lifecycle is unfitted -> fitted.  The flag is set by fit
\* when its frequency check has passed, in the step that enters train: it is
\* true throughout train, it is never cleared, so it stays true when train is
\* interrupted by a failure.
C3_FittedBeforeTrain ==
    /\ [](InTrain => fitted)
    /\ [][fitted => fitted']_vars
    /\ [][(~fitted /\ fitted') => (Idle /\ pc' = <<"train_begin">>)]_vars

\* A fit whose train failed at the end of its first epoch (freq_of_test = 0).
C3_Witness ==
    /\ fitted
    /\ Idle
    /\ ret = "ZeroDivisionError"
    /\ sched.es = 1
    /\ mc.max_epochs > 1

\* -------------------------------------------------------------------- C4
\* C4: with ensembling enabled, once 5 epochs of train have completed the
\* ensemble has exactly 5 members: the evaluation-mode snapshots of the 5
\* most recent epochs, one per epoch, oldest first.
C4_LastFiveSnapshots ==
    (mc.ensemble /\ InTrain /\ EpochsDone >= EnsembleSize)
       => /\ Len(esrnn_ensemble) = 5
          /\ \A i \in 1..5 :
                /\ esrnn_ensemble[i].epoch = EpochsDone - 5 + (i - 1)
                /\ esrnn_ensemble[i].mode = "eval"
                /\ esrnn_ensemble[i].id.fit = esrnn.id.fit
          /\ \A i, j \in 1..5 :
                i # j => esrnn_ensemble[i].id # esrnn_ensemble[j].id

\* The sixth epoch has completed: the snapshot of epoch 0 has been dropped.
C4_Witness ==
    /\ mc.ensemble
    /\ InTrain
    /\ EpochsDone = 6
    /\ esrnn_ensemble[1].epoch = 1

\* -------------------------------------------------------------------- C5
\* C5 as stated: once train has started with ensembling enabled, no ensemble
\* member is the live network and no two positions of the ensemble hold the
\* same object.
C5_AllDistinct ==
    (mc.ensemble /\ esrnn_ensemble # <<>>)
       => /\ \A i \in DOMAIN esrnn_ensemble :
                esrnn_ensemble[i].id # esrnn.id
          /\ \A i, j \in DOMAIN esrnn_ensemble :
                i # j => esrnn_ensemble[i].id # esrnn_ensemble[j].id

\* C5, amended: no ensemble member is ever the live network, and the epoch
\* snapshots are objects of their own; but the positions that no snapshot has
\* replaced yet all hold one object, the single copy made when train starts,
\* so the positions are pairwise distinct only once 5 epochs have completed.
C5_CopiesOfLive ==
    (mc.ensemble /\ esrnn_ensemble # <<>>)
       => /\ \A i \in DOMAIN esrnn_ensemble :
                esrnn_ensemble[i].id # esrnn.id
          /\ \A i, j \in DOMAIN esrnn_ensemble :
                (i # j /\ esrnn_ensemble[i].id = esrnn_ensemble[j].id)
                   => /\ esrnn_ensemble[i].epoch = NoAttr
                      /\ esrnn_ensemble[j].epoch = NoAttr
          /\ (InTrain /\ pc[1] # "train_begin" /\ EpochsDone < EnsembleSize)
                => \A i, j \in 1..(EnsembleSize - EpochsDone) :
                      esrnn_ensemble[i].id = esrnn_ensemble[j].id

\* Two epochs have completed: three positions hold the initial copy.
C5_Witness ==
    /\ mc.ensemble
    /\ InTrain
    /\ Len(esrnn_ensemble) = 5
    /\ esrnn_ensemble[1].id = esrnn_ensemble[3].id
    /\ esrnn_ensemble[4].epoch = 0
    /\ esrnn_ensemble[5].epoch = 1

\* -------------------------------------------------------------------- C6
\* The frequencies of the panels a call of fit supplies disagree.
SuppliedDisagree(a) ==
    Cardinality({a.xf, a.yf} \cup ({a.xt, a.yt} \ {"None"})) > 1

\* C6 as stated: if any two supplied panels (X_df, y_df, and each of
\* X_test_df / y_test_df that is not None) differ in inferred frequency, fit
\* fails, train does not run and the instance is not marked fitted.
C6_DisagreementFails ==
    [][\A a \in FitInputs :
          (FitCall(a) /\ SuppliedDisagree(a))
             => /\ pc' = <<>>
                /\ ret' = "Match the frequencies"
                /\ fitted' = fitted]_vars

\* -------------------------------------------------------------------- C7
\* C7: on a fitted instance predict runs at the evaluation batch size
\* min(n_series, batch_size_test); each batch advances the write cursor by
\* output_size * (rows of the batch) and writes that many slots that were
\* still at their placeholder; after the n_batches batches the cursor is at
\* output_size * n_series and every slot has been written exactly once.
C7_EverySlotOnce ==
    /\ [](Top = "predict_loop"
            => /\ dl.batch_size = Min(mc.n_series, mc.batch_size_test)
               /\ Len(pr.panel) = mc.output_size * mc.n_series
               /\ pr.count <= Len(pr.panel)
               /\ \A j \in DOMAIN pr.panel :
                     pr.panel[j] = (IF j <= pr.count THEN 1 ELSE 0)
               /\ (pr.i = dl.n_batches
                     => pr.count = mc.output_size * mc.n_series))
    /\ [][(Top = "predict_loop" /\ pr'.i = pr.i + 1)
             => /\ pr'.count = pr.count + mc.output_size * BatchRows(dl)
                /\ BatchRows(dl) > 0]_vars
    /\ [][(Top = "predict_loop" /\ pr.i < dl.n_batches)
             => UNCHANGED <<pc, ret>>]_vars

\* Three series forecast in batches of 2 and 1, two steps ahead each.
C7_Witness ==
    /\ Top = "predict_loop"
    /\ mc.n_series = 3
    /\ dl.batch_size = 2
    /\ mc.output_size = 2
    /\ pr.i = 2
    /\ pr.count = 6

\* -------------------------------------------------------------------- C8
\* The fields of the config that fit and instantiate_esrnn record.
RecordedByFit == {"exogenous_size", "n_series", "frequency", "category_to_idx"}

\* C8 as stated: no operation assigns a field of the config other than
\* exogenous_size, n_series, frequency and category_to_idx.
C8_OnlyFitFields ==
    [][\A f \in DOMAIN mc \ RecordedByFit : mc'[f] = mc[f]]_vars

\* C8, amended: no operation assigns a field of the config other than
\* exogenous_size, n_series, frequency, category_to_idx and copy; copy is
\* assigned by save and load (called with a copy argument), the four others
\* by fit.
C8_FitFieldsAndCopy ==
    /\ [][\A f \in DOMAIN mc \ (RecordedByFit \cup {"copy"}) :
             mc'[f] = mc[f]]_vars
    /\ [][mc'.copy # mc.copy => (Idle /\ pc' = <<>> /\ mc'.copy \in CopyArgs
                                  /\ ret' \in {"ok", "AttributeError"})]_vars
    /\ [][(\E f \in RecordedByFit : mc'[f] # mc[f])
             => (Idle /\ esrnn'.id # esrnn.id)]_vars

\* All five have been recorded.
C8_Witness ==
    /\ mc.copy = 1
    /\ mc.n_series = 3
    /\ mc.exogenous_size = 2
    /\ mc.frequency = "M"
    /\ mc.max_epochs = args.max_epochs

\* -------------------------------------------------------------------- C9
\* C9: a constructed ModelConfig has min_series_length = input_size +
\* output_size, max_series_length = max_periods * input_size +
\* min_series_length, and naive_seasonality = the first seasonality period,
\* or 1 when the seasonality list is empty.
C9_DerivedFields ==
    Idle => /\ mc.min_series_length = args.input_size + args.output_size
            /\ mc.max_series_length =
                 args.max_periods * args.input_size + mc.min_series_length
            /\ mc.naive_seasonality =
                 (IF args.seasonality = <<>> THEN 1
                  ELSE Head(args.seasonality))

\* An empty seasonality list, and sizes that tell the three sums apart.
C9_Witness ==
    /\ Idle
    /\ args.seasonality = <<>>
    /\ mc.naive_seasonality = 1
    /\ args.input_size = 2 /\ args.output_size = 3 /\ args.max_periods = 3
    /\ mc.max_series_length = 11

\* ------------------------------------------------------------------- C10
\* The events of one batch iteration of train, in the order of lines 198-216.
IterOrder ==
    <<"zero_grad_es", "zero_grad_rnn", "get_batch", "loss", "backward",
      "clip_rnn", "clip_es", "step_rnn", "step_es">>

\* The batches of one epoch of the running train.
TrainBatches == NBatches(mc.n_series, mc.batch_size)

\* C10: in every batch iteration of train the events occur in the order
\* zero both optimizers' gradients, get the batch and compute the loss,
\* backpropagate, clip both groups, step both optimizers, so an optimizer
\* steps only on gradients clipped after the backward pass of its iteration;
\* each scheduler steps exactly once per epoch, after that epoch's last
\* optimizer step.
C10_IterationOrder ==
    /\ [](InTrain
            => /\ \E n \in 0..Len(IterOrder) :
                     hist.iter = SubSeq(IterOrder, 1, n)
               /\ (Top = "opt_step"
                     => /\ grads = [rnn |-> "clipped", es |-> "clipped"]
                        /\ hist.iter = SubSeq(IterOrder, 1, 7))
               /\ (pc[1] \in {"zero_grad", "forward", "backward", "clip",
                              "opt_step", "epoch_end"}
                     => hist.schedInEpoch = 0)
               /\ (pc[1] \in {"eval_check", "emp_call", "after_emp"}
                     => /\ hist.schedInEpoch = 1
                        /\ tb = TrainBatches
                        /\ hist.iter = IterOrder))
    /\ [][sched' # sched
             => \/ Top = "train_begin"
                \/ /\ Top = "epoch_end"
                   /\ tb = TrainBatches
                   /\ sched'.es = sched.es + 1
                   /\ sched'.rnn = sched.rnn + 1]_vars
    /\ [][(InTrain /\ epoch' = epoch + 1)
             => (sched.es # NoAttr /\ hist.schedInEpoch = 1)]_vars

\* A later epoch of several batches has ended and its schedulers have stepped.
C10_Witness ==
    /\ Top = "eval_check"
    /\ epoch >= 1
    /\ tb = 2
    /\ hist.schedInEpoch = 1
    /\ sched.es = epoch + 1

\* ------------------------------------------------------------------- C11
\* C11 as stated: for every integer freq_of_test, at the end of an epoch e
\* train performs the held-out evaluation exactly when freq_of_test > 0,
\* e % freq_of_test = 0 and a held-out panel was supplied; in every other
\* case, every freq_of_test <= 0 included, the epoch ends without evaluation
\* and training goes on to the next epoch.
C11_EvaluationPeriod ==
    [][Top = "eval_check"
          => IF /\ mc.freq_of_test > 0
                /\ epoch % mc.freq_of_test = 0
                /\ panels.y_test = "frame"
             THEN pc' = <<"emp_call", "me_begin">>
             ELSE pc' = <<"epoch_begin">> /\ epoch' = epoch + 1]_vars

\* ------------------------------------------------------------------- C12
\* C12 as stated: after any sequence of evaluations following a fit, made by
\* train with an epoch or by the caller with epoch = None, min_owa is the
\* minimum of 4.0 and the scores seen so far, and min_epoch is the epoch of
\* the evaluation that produced the current min_owa.
C12_BestAndItsEpoch ==
    hist.best.by # "none"
       => /\ min_owa = hist.best.owa
          /\ hist.best.by # "fit" => min_epoch = hist.best.epoch

\* C12, amended: between two fits min_owa is the minimum of 4.0 and the
\* scores seen so far and never increases (a fit sets it to 4.0 and
\* min_epoch to 0 again).  min_epoch is the epoch of the evaluation that
\* produced the current min_owa only when train made that evaluation; it is
\* 0 while no score has been below 4.0, and an evaluation made by the caller
\* (epoch = None) that lowers min_owa leaves min_epoch as it was.
C12_BestScore ==
    /\ [](hist.best.by # "none"
            => /\ min_owa = hist.best.owa
               /\ min_owa <= InitialMinOwa
               /\ hist.best.by = "train" => min_epoch = hist.best.epoch
               /\ hist.best.by = "fit" => min_epoch = 0 /\ min_owa = 4)
    /\ [][min_owa' > min_owa => (Idle /\ esrnn'.id # esrnn.id
                                  /\ min_owa' = 4 /\ min_epoch' = 0)]_vars
    /\ [][(Top = "emp_wait" /\ emp_epoch = NoAttr)
             => min_epoch' = min_epoch]_vars
    /\ [][min_epoch' # min_epoch
             => \/ Idle /\ esrnn'.id # esrnn.id /\ min_epoch' = 0
                \/ /\ Top = "emp_wait"
                   /\ min_epoch' = emp_epoch
                   /\ min_owa' < min_owa]_vars

\* The best score was improved by train at a later epoch, then by the caller.
C12_Witness ==
    /\ Idle
    /\ hist.best.by = "caller"
    /\ min_owa = 2
    /\ min_epoch = 2

\* ------------------------------------------------------------------- C13
\* The iterator batches as train needs it.
TrainingBatches ==
    /\ dl.batch_size = mc.batch_size
    /\ dl.n_batches = CeilDiv(mc.n_series, mc.batch_size)

\* C13 as stated: whenever predict or model_evaluation has ended, normally
\* or by a failure after its update_batch_size, the iterator is back at the
\* training batch size: so it is whenever no call runs, and whenever train
\* itself executes.
C13_BatchSizeRestored ==
    (dl # NoIterator /\ Len(pc) <= 1 /\ Top # "predict_loop")
       => TrainingBatches

\* ------------------------------------------------------------------- C14
\* C14 as stated: whenever train executes an optimizer step, both optimizers
\* exist and hold the parameter groups of the live network, for every
\* sequence of fit calls with warm_start true or false.
C14_OptimizersOfLiveNetwork ==
    Top = "opt_step"
       => /\ opt.es # NoObject /\ opt.rnn # NoObject
          /\ opt.es = esrnn.id /\ opt.rnn = esrnn.id

====
